---- MODULE Spec2Model ----
(***************************************************************************)
(* Package Dependency Resolution Game: the Game Session                    *)
(* (PackageDependencyGame, web/game-logic.js) and the Boolean solver       *)
(* (BooleanSolver, boolean-solver.js).                                     *)
(*                                                                         *)
(* A package token is a JavaScript string.  It is modelled as a sequence   *)
(* of symbols: the separators "-", "=" and "." are one symbol each, and a  *)
(* maximal run of other characters ("torch", "12") is one symbol.  The     *)
(* string operations the code uses (includes, split, replace, a regular    *)
(* expression stripping leading "-" and "=") look only at separators, so   *)
(* they act on these sequences as they act on the strings.                 *)
(***************************************************************************)
EXTENDS Integers, Sequences, FiniteSets, TLC

VARIABLES
    dependencyGraph,   \* [nodes |-> sequence of tokens, edges |-> sequence of <<source, target>>]
    rootPackage,       \* the root token
    game,              \* "ready": new PackageDependencyGame(...) returned; "error": it threw
    selectedPackages,  \* PackageDependencyGame.selectedPackages
    lastCall,          \* the last call made on the session, its argument, its result, the selection before it
    solvers,           \* <<the BooleanSolver instance in use>> (its fields: see NewBooleanSolver)
    solverCall,        \* the last call made on a BooleanSolver instance and what it returned
    firstGenerated,    \* what the first generateClauses call made by the caller returned and recorded
    gameWon            \* PackageGameApp.gameWon

vars == <<dependencyGraph, rootPackage, game, selectedPackages, lastCall, solvers, solverCall, firstGenerated,
          gameWon>>

(***************************************************************************)
(* Bounds of the model.                                                    *)
(***************************************************************************)
MaxEdges == 2          \* the graphs the solver is run on have at most this many edges
MaxSessionEdges == 1   \* the graphs the Game Session is run on have at most this many edges
MaxSolutions == 2      \* allSolutions is called with maxSolutions in 0..MaxSolutions (and with 5)
WideNodes == 15        \* the number of nodes of the largest custom graph allSolutions is run on
HugeNodes == 33        \* the number of nodes of the graph the 32-bit shift is followed on
MaxTokenLen == 6       \* the tokens the parser is run on have at most this many symbols

(***************************************************************************)
(* JavaScript string operations on tokens.                                 *)
(***************************************************************************)
Min(a, b) == IF a < b THEN a ELSE b

\* String.prototype.indexOf, 1-based; 0 when sep does not occur in s.
RECURSIVE IndexFrom(_, _, _)
IndexFrom(s, sep, i) ==
    IF i + Len(sep) - 1 > Len(s) THEN 0
    ELSE IF SubSeq(s, i, i + Len(sep) - 1) = sep THEN i
    ELSE IndexFrom(s, sep, i + 1)

IndexOf(s, sep) == IndexFrom(s, sep, 1)

\* String.prototype.includes
StrIncludes(s, sep) == IndexOf(s, sep) # 0

\* String.prototype.split with a non-empty separator
RECURSIVE Split(_, _)
Split(s, sep) ==
    LET i == IndexOf(s, sep)
    IN  IF i = 0 THEN <<s>>
        ELSE <<SubSeq(s, 1, i - 1)>> \o Split(SubSeq(s, i + Len(sep), Len(s)), sep)

\* String.prototype.replace(pattern, '') with a string pattern: the first occurrence is removed.
ReplaceFirst(s, pattern) ==
    LET i == IndexOf(s, pattern)
    IN  IF i = 0 THEN s
        ELSE SubSeq(s, 1, i - 1) \o SubSeq(s, i + Len(pattern), Len(s))

\* String.prototype.replace(/^[-=]+/, '')
RECURSIVE StripLeadingSeparators(_)
StripLeadingSeparators(s) ==
    IF s # <<>> /\ Head(s) \in {"-", "="} THEN StripLeadingSeparators(Tail(s)) ELSE s

\* Array.prototype.includes
ArrayIncludes(arr, x) == \E i \in 1..Len(arr) : arr[i] = x

Range(arr) == {arr[i] : i \in 1..Len(arr)}

HYPHEN == <<"-">>
EQEQ == <<"=", "=">>
DOT == <<".">>

(***************************************************************************)
(* PackageDependencyGame: package identity.                                *)
(***************************************************************************)
DefaultVersion == <<"1", ".", "0", ".", "0">>

\* parsePackageNode(node) -> <<name, version>>
ParsePackageNode(node) ==
    LET hyphenParts == Split(node, HYPHEN)
        equalsParts == Split(node, EQEQ)
    IN  IF StrIncludes(node, HYPHEN) /\ Len(hyphenParts) = 2
        THEN IF Len(hyphenParts) = 2 /\ StrIncludes(hyphenParts[2], DOT)
             THEN <<hyphenParts[1], hyphenParts[2]>>
             ELSE <<node, DefaultVersion>>
        ELSE IF StrIncludes(node, EQEQ)
        THEN IF Len(equalsParts) = 2
             THEN <<equalsParts[1], equalsParts[2]>>
             ELSE <<node, DefaultVersion>>
        ELSE <<node, DefaultVersion>>

GameGetPackageName(node) == ParsePackageNode(node)[1]

GameGetPackageVersion(node) == ParsePackageNode(node)[2]

(***************************************************************************)
(* BooleanSolver: package identity.                                        *)
(***************************************************************************)
\* getPackageName(packageStr)
GetPackageName(packageStr) ==
    LET hyphenParts == Split(packageStr, HYPHEN)
    IN  IF StrIncludes(packageStr, HYPHEN) /\ Len(hyphenParts) = 2
        THEN IF Len(hyphenParts) = 2 /\ StrIncludes(hyphenParts[2], DOT)
             THEN hyphenParts[1]
             ELSE packageStr
        ELSE IF StrIncludes(packageStr, EQEQ)
        THEN Split(packageStr, EQEQ)[1]
        ELSE packageStr

\* getCleanName(packageStr)
GetCleanName(packageStr) ==
    LET name == GetPackageName(packageStr)
        version == StripLeadingSeparators(ReplaceFirst(packageStr, name))
    IN  IF version # <<>> THEN name \o version ELSE name

(***************************************************************************)
(* BooleanSolver: construction and clause generation.                      *)
(*                                                                         *)
(* A Map is a sequence of [name, versions] in insertion order, which is    *)
(* the order Map.prototype.entries iterates in.  A clause is a sequence of *)
(* literals <<token, required>>.  In the formula strings the logical       *)
(* signs are written as the words NOT, AND, OR and IMPLIES.                *)
(***************************************************************************)
\* if (!map.has(name)) map.set(name, []); map.get(name).push(pkg)
GroupPush(groups, name, pkg) ==
    IF \E k \in 1..Len(groups) : groups[k].name = name
    THEN [k \in 1..Len(groups) |->
            IF groups[k].name = name
            THEN [groups[k] EXCEPT !.versions = Append(@, pkg)]
            ELSE groups[k]]
    ELSE Append(groups, [name |-> name, versions |-> <<pkg>>])

\* The grouping loops of the constructor (packageGroups) and of generateClauses (depGroups).
RECURSIVE GroupByName(_, _)
GroupByName(pkgs, n) ==
    IF n = 0 THEN <<>>
    ELSE GroupPush(GroupByName(pkgs, n - 1), GetPackageName(pkgs[n]), pkgs[n])

\* new BooleanSolver(dependencyGraph, rootPackage)
NewBooleanSolver(graph, root) ==
    [dependencyGraph |-> graph,
     rootPackage |-> root,
     packages |-> graph.nodes,
     packageGroups |-> GroupByName(graph.nodes, Len(graph.nodes)),
     originalFormulas |-> <<>>]

\* getDependencies(packageNode): the targets of the node's edges, in edge order.
RECURSIVE DependenciesUpTo(_, _, _)
DependenciesUpTo(edges, packageNode, n) ==
    IF n = 0 THEN <<>>
    ELSE LET rest == DependenciesUpTo(edges, packageNode, n - 1)
         IN  IF edges[n][1] = packageNode THEN Append(rest, edges[n][2]) ELSE rest

GetDependencies(graph, packageNode) == DependenciesUpTo(graph.edges, packageNode, Len(graph.edges))

RECURSIVE Concat(_)
Concat(seqs) == IF seqs = <<>> THEN <<>> ELSE Head(seqs) \o Concat(Tail(seqs))

\* Array.prototype.join
RECURSIVE Join(_, _)
Join(strs, sep) ==
    IF strs = <<>> THEN <<>>
    ELSE IF Len(strs) = 1 THEN strs[1]
    ELSE strs[1] \o sep \o Join(Tail(strs), sep)

\* a root clause that asks for the root not to be selected
RootEntryNegated(root) ==
    LET cleanRoot == GetCleanName(root)
    IN  [clause |-> <<<<root, FALSE>>>>,
         type |-> "root",
         formula |-> cleanRoot,
         description |-> <<"Root package ">> \o cleanRoot \o <<" must be installed">>]

\* 1. Root package must be installed
RootEntry(root) ==
    LET cleanRoot == GetCleanName(root)
    IN  [clause |-> <<<<root, TRUE>>>>,
         type |-> "root",
         formula |-> cleanRoot,
         description |-> <<"Root package ">> \o cleanRoot \o <<" must be installed">>]

\* the loops "for i ... for j = i + 1 ..." over a group of n versions
RECURSIVE IndexPairs(_, _, _)
IndexPairs(i, j, n) ==
    IF i > n THEN <<>>
    ELSE IF j > n THEN IndexPairs(i + 1, i + 2, n)
    ELSE <<<<i, j>>>> \o IndexPairs(i, j + 1, n)

\* a version clause that negates only its first token
VersionEntryHalfNegated(pkg1, pkg2) ==
    LET cleanPkg1 == GetCleanName(pkg1)
        cleanPkg2 == GetCleanName(pkg2)
    IN  [clause |-> <<<<pkg1, FALSE>>, <<pkg2, TRUE>>>>,
         type |-> "version_constraint",
         formula |-> <<"NOT(">> \o cleanPkg1 \o <<" AND ">> \o cleanPkg2 \o <<")">>,
         description |-> <<"Cannot select both ">> \o cleanPkg1 \o <<" and ">> \o cleanPkg2]

VersionEntry(pkg1, pkg2) ==
    LET cleanPkg1 == GetCleanName(pkg1)
        cleanPkg2 == GetCleanName(pkg2)
    IN  [clause |-> <<<<pkg1, FALSE>>, <<pkg2, FALSE>>>>,
         type |-> "version_constraint",
         formula |-> <<"NOT(">> \o cleanPkg1 \o <<" AND ">> \o cleanPkg2 \o <<")">>,
         description |-> <<"Cannot select both ">> \o cleanPkg1 \o <<" and ">> \o cleanPkg2]

\* clause generation without step 2
VersionEntriesNone(packageGroups) == <<>>

\* 2. At most one version of each package can be selected
VersionEntries(packageGroups) ==
    Concat([g \in 1..Len(packageGroups) |->
        LET versions == packageGroups[g].versions
            pairs == IndexPairs(1, 2, Len(versions))
        IN  IF Len(versions) > 1
            THEN [p \in 1..Len(pairs) |-> VersionEntry(versions[pairs[p][1]], versions[pairs[p][2]])]
            ELSE <<>>])

DependencyEntry(pkg, depVersions) ==
    LET cleanPackage == GetCleanName(pkg)
        cleanDeps ==
            IF Len(depVersions) = 1
            THEN GetCleanName(depVersions[1])
            ELSE <<"(">> \o Join([d \in 1..Len(depVersions) |-> GetCleanName(depVersions[d])], <<" OR ">>) \o <<")">>
    IN  [clause |-> <<<<pkg, FALSE>>>> \o [d \in 1..Len(depVersions) |-> <<depVersions[d], TRUE>>],
         type |-> "dependency",
         formula |-> cleanPackage \o <<" IMPLIES ">> \o cleanDeps,
         description |-> <<"If ">> \o cleanPackage \o <<" is selected, then ">> \o cleanDeps \o <<" must be selected">>]

\* step 3 with one clause for every edge
DependencyEntriesPerEdge(graph, packages) ==
    Concat([p \in 1..Len(packages) |->
        LET dependencies == GetDependencies(graph, packages[p])
        IN  [d \in 1..Len(dependencies) |-> DependencyEntry(packages[p], <<dependencies[d]>>)]])

\* 3. Dependency constraints
DependencyEntries(graph, packages) ==
    Concat([p \in 1..Len(packages) |->
        LET dependencies == GetDependencies(graph, packages[p])
            depGroups == GroupByName(dependencies, Len(dependencies))
        IN  IF Len(dependencies) > 0
            THEN [g \in 1..Len(depGroups) |-> DependencyEntry(packages[p], depGroups[g].versions)]
            ELSE <<>>])

\* generateClauses without its reset of this.originalFormulas
FormulasAtEntryKept(originalFormulas) == originalFormulas

\* this.originalFormulas = [] at the start of generateClauses
FormulasAtEntry(originalFormulas) == <<>>

\* generateClauses(): the clause list returned, and this.originalFormulas after the call
GenerateClauses(solver) ==
    LET entries == <<RootEntry(solver.rootPackage)>>
                   \o VersionEntries(solver.packageGroups)
                   \o DependencyEntries(solver.dependencyGraph, solver.packages)
    IN  [clauses |-> [k \in 1..Len(entries) |-> entries[k].clause],
         originalFormulas |->
            FormulasAtEntry(solver.originalFormulas)
            \o [k \in 1..Len(entries) |->
                  [type |-> entries[k].type,
                   formula |-> entries[k].formula,
                   description |-> entries[k].description]]]

\* a wrong evaluation: the polarity of a literal is not looked at
EvaluateClauseIgnoringPolarity(clause, selected) ==
    \E l \in 1..Len(clause) : clause[l][1] \in selected

\* evaluateClause(clause, selectedPackages)
EvaluateClause(clause, selected) ==
    \E l \in 1..Len(clause) :
        LET isSelected == clause[l][1] \in selected
        IN  (clause[l][2] /\ isSelected) \/ (~clause[l][2] /\ ~isSelected)

\* evaluateAllClauses, after its call of generateClauses
EvaluateClauses(clauses, selected) ==
    LET results == [k \in 1..Len(clauses) |-> EvaluateClause(clauses[k], selected)]
    IN  [allSatisfied |-> \A k \in 1..Len(results) : results[k],
         results |-> results]

\* evaluateAllClauses(selectedPackages)
EvaluateAllClauses(solver, selected) ==
    EvaluateClauses(GenerateClauses(solver).clauses, selected)

\* a getClauseDetails that numbers its entries from 0
GetClauseDetailsFromZero(generated, selected) ==
    [k \in 1..Len(generated.clauses) |->
        LET formula == generated.originalFormulas[k]
            satisfied == EvaluateClause(generated.clauses[k], selected)
        IN  [index |-> k - 1,
             originalFormula |-> formula.formula,
             description |-> formula.description,
             satisfied |-> satisfied,
             type |-> formula.type,
             color |-> IF satisfied THEN "green" ELSE "red",
             status |-> IF satisfied THEN "CHECK True" ELSE "CROSS False"]]

\* getClauseDetails(selectedPackages), after its calls of generateClauses and
\* getOriginalFormulas, which gave `generated`.  Entry k of the model is the
\* entry pushed in the iteration i = k - 1, so its index i + 1 is k.  The
\* check mark and the cross of `status` are written as words.
GetClauseDetails(generated, selected) ==
    [k \in 1..Len(generated.clauses) |->
        LET formula == generated.originalFormulas[k]
            satisfied == EvaluateClause(generated.clauses[k], selected)
        IN  [index |-> k,
             originalFormula |-> formula.formula,
             description |-> formula.description,
             satisfied |-> satisfied,
             type |-> formula.type,
             color |-> IF satisfied THEN "green" ELSE "red",
             status |-> IF satisfied THEN "CHECK True" ELSE "CROSS False"]]

(***************************************************************************)
(* BooleanSolver.allSolutions.                                             *)
(***************************************************************************)
MaxCombinationsCap == 10000

RECURSIVE Pow2(_)
Pow2(n) == IF n = 0 THEN 1 ELSE 2 * Pow2(n - 1)

\* i halved s times, rounding down
RECURSIVE HalvedTimes(_, _)
HalvedTimes(i, s) == IF s = 0 \/ i = 0 THEN i ELSE HalvedTimes(i \div 2, s - 1)

\* i & (1 << j) is non-zero.  The shift count of << is taken modulo 32, and
\* 0 <= i < 10000, so the test reads bit (j mod 32) of i (for a count of 31
\* the mask is the sign bit, which i does not have).
BitSet(i, j) == HalvedTimes(i, j % 32) % 2 = 1

\* an inner loop that reads the counter from its highest bit down
CandidateFromTheTop(packages, i) ==
    {packages[Len(packages) - j] : j \in {k \in 0..(Len(packages) - 1) : BitSet(i, k)}}

\* the inner loop: the candidate selection of counter value i
Candidate(packages, i) == {packages[j + 1] : j \in {k \in 0..(Len(packages) - 1) : BitSet(i, k)}}

\* a wrong acceptance test: one of the two conditions is enough
IsSolutionEither(solver, allSatisfied, selected) ==
    allSatisfied \/ solver.rootPackage \in selected

\* if (allSatisfied && selectedPackages.has(this.rootPackage))
IsSolution(solver, allSatisfied, selected) ==
    allSatisfied /\ solver.rootPackage \in selected

\* The outer loop from counter value i on.  generateClauses reads only the
\* graph, the root and packageGroups, so the clause list that
\* evaluateAllClauses rebuilds for every candidate is the list `clauses`.
\* a search range that leaves out the candidates with the last package
MaxCombinationsHalf(n) == Min(Pow2(Min(n, 14)) \div 2, MaxCombinationsCap)

\* const maxCombinations = Math.min(Math.pow(2, n), 10000).  Math.pow returns
\* a double, exact for every n a graph can have; from n = 14 on the power is
\* above 10000, so the minimum is computed from 2^14 there.
MaxCombinations(n) == Min(Pow2(Min(n, 14)), MaxCombinationsCap)

\* a loop that does not look at the number of solutions collected
LoopContinuesToTheEnd(i, maxCombinations, solutions, maxSolutions) ==
    i < maxCombinations

\* the condition of the outer loop: i < maxCombinations && solutions.length < maxSolutions
LoopContinues(i, maxCombinations, solutions, maxSolutions) ==
    i < maxCombinations /\ Len(solutions) < maxSolutions

RECURSIVE SolutionsFrom(_, _, _, _, _, _)
SolutionsFrom(solver, clauses, i, maxCombinations, maxSolutions, solutions) ==
    IF ~LoopContinues(i, maxCombinations, solutions, maxSolutions) THEN solutions
    ELSE LET selected == Candidate(solver.packages, i)
             allSatisfied == EvaluateClauses(clauses, selected).allSatisfied
         IN  SolutionsFrom(solver, clauses, i + 1, maxCombinations, maxSolutions,
                IF IsSolution(solver, allSatisfied, selected)
                THEN Append(solutions, selected)
                ELSE solutions)

\* allSolutions(maxSolutions), `clauses` being what generateClauses returns
SolutionsOver(solver, clauses, maxSolutions) ==
    SolutionsFrom(solver, clauses, 0, MaxCombinations(Len(solver.packages)), maxSolutions, <<>>)

\* allSolutions(maxSolutions)
AllSolutions(solver, maxSolutions) ==
    SolutionsOver(solver, GenerateClauses(solver).clauses, maxSolutions)

(***************************************************************************)
(* PackageDependencyGame: the session's operations.                        *)
(***************************************************************************)
\* a constructor without the validation of its inputs
ConstructorNeverThrows(graph, root) == FALSE

\* constructor: throws when the root is not a node
ConstructorThrows(graph, root) == ~ArrayIncludes(graph.nodes, root)

\* selectPackage without the version check
SelectPackageResultNoConflict(graph, selected, packageNode) ==
    IF ~ArrayIncludes(graph.nodes, packageNode) THEN -1 ELSE 1

\* selectPackage whose version check skips the token itself
SelectPackageResultSkipSelf(graph, selected, packageNode) ==
    IF ~ArrayIncludes(graph.nodes, packageNode) THEN -1
    ELSE IF \E sel \in selected \ {packageNode} :
                GameGetPackageName(sel) = GameGetPackageName(packageNode) THEN 0
    ELSE 1

\* selectPackage that makes the version check before the node check
SelectPackageResultConflictFirst(graph, selected, packageNode) ==
    IF \E sel \in selected : GameGetPackageName(sel) = GameGetPackageName(packageNode) THEN 0
    ELSE IF ~ArrayIncludes(graph.nodes, packageNode) THEN -1
    ELSE 1

\* selectPackage without the check that the token is a node
SelectPackageResultAnyToken(graph, selected, packageNode) ==
    IF \E sel \in selected : GameGetPackageName(sel) = GameGetPackageName(packageNode) THEN 0
    ELSE 1

\* selectPackage(packageNode): the value returned
SelectPackageResult(graph, selected, packageNode) ==
    IF ~ArrayIncludes(graph.nodes, packageNode) THEN -1
    ELSE IF \E sel \in selected : GameGetPackageName(sel) = GameGetPackageName(packageNode) THEN 0
    ELSE 1

\* a selectPackage that adds the token whatever it returns
SelectPackageEffectAlways(graph, selected, packageNode) ==
    selected \cup {packageNode}

\* selectPackage(packageNode): this.selectedPackages after the call
SelectPackageEffect(graph, selected, packageNode) ==
    IF SelectPackageResult(graph, selected, packageNode) = 1
    THEN selected \cup {packageNode}
    ELSE selected

\* deselectPackage(packageNode): the value returned
DeselectPackageResult(selected, packageNode) == packageNode \in selected

\* a deselectPackage that empties the selection when the token is selected
DeselectPackageEffectAll(selected, packageNode) ==
    IF packageNode \in selected THEN {} ELSE selected

\* a deselectPackage that never takes the root out of the selection
DeselectPackageEffectKeepingRoot(selected, packageNode) ==
    selected \ ({packageNode} \ {rootPackage})

\* deselectPackage(packageNode): this.selectedPackages after the call
DeselectPackageEffect(selected, packageNode) == selected \ {packageNode}

\* isValidSolution(); no statement of its try block throws on a graph of string tokens
IsValidSolution(graph, root, selected) ==
    EvaluateAllClauses(NewBooleanSolver(graph, root), selected).allSatisfied

\* checkConstraints().  The list is given as the set of its entries, a record
\* for each message: the order of the list is the insertion order of the
\* Set, which the model does not keep.  An entry "requires" is pushed for
\* every edge of a selected package whose target's name no selected package
\* has; `edge` is the position of that edge.
CheckConstraints(graph, selected) ==
    {[kind |-> "multiple", name |-> name,
      versions |-> {pkg \in selected : GameGetPackageName(pkg) = name}] :
        name \in {GameGetPackageName(pkg) : pkg \in
                    {p \in selected : \E q \in selected \ {p} :
                                        GameGetPackageName(q) = GameGetPackageName(p)}}}
    \cup
    {[kind |-> "requires", pkg |-> graph.edges[e][1],
      depName |-> GameGetPackageName(graph.edges[e][2]), edge |-> e] :
        e \in {k \in 1..Len(graph.edges) :
                 /\ graph.edges[k][1] \in selected
                 /\ ~\E sel \in selected :
                       GameGetPackageName(sel) = GameGetPackageName(graph.edges[k][2])}}

\* getGameState()
GetGameState(graph, root, selected) ==
    [rootPackage |-> root,
     selectedPackages |-> selected,
     constraintViolations |-> CheckConstraints(graph, selected),
     isValidSolution |-> IsValidSolution(graph, root, selected),
     totalPackages |-> Len(graph.nodes),
     totalDependencies |-> Len(graph.edges)]

\* the maxSolutions the application's solutions display asks for
ShownSolutions == 5

(***************************************************************************)
(* The graphs and roots the model is run on.                               *)
(***************************************************************************)
Tok(name, version) == <<name>> \o EQEQ \o version

A1 == Tok("A", <<"1">>)
A2 == Tok("A", <<"2">>)
B1 == Tok("B", <<"1">>)
C1 == Tok("C", <<"1">>)
\* "A==1==2": two double-equals
A1x2 == <<"A", "=", "=", "1", "=", "=", "2">>
\* "A-1.0": the hyphen form
Ah10 == <<"A", "-", "1", ".", "0">>

\* the token "A==1==2-1.0"
A1x2h10 == A1x2 \o <<"-", "1", ".", "0">>

TokenList == <<A1, A2, B1>>

Tokens == Range(TokenList)

\* the elements of arr at the positions `positions`, in the order of arr
RECURSIVE SubList(_, _, _)
SubList(arr, positions, n) ==
    IF n = 0 THEN <<>>
    ELSE IF n \in positions THEN Append(SubList(arr, positions, n - 1), arr[n])
    ELSE SubList(arr, positions, n - 1)

Reverse(arr) == [k \in 1..Len(arr) |-> arr[Len(arr) + 1 - k]]

\* the node lists: the tokens of TokenList, any of them left out, in its order or in the reverse order
NodeLists ==
    LET inOrder == {SubList(TokenList, positions, Len(TokenList)) : positions \in SUBSET (1..Len(TokenList))}
    IN  inOrder \cup {Reverse(nodes) : nodes \in inOrder}

SeqsUpTo(S, n) == UNION {[1..k -> S] : k \in 0..n}

\* every node list with every edge list of at most maxEdges edges between two different nodes of it
GraphsOver(nodeLists, maxEdges) ==
    UNION {{[nodes |-> nodes, edges |-> edges] :
                edges \in SeqsUpTo({e \in Range(nodes) \X Range(nodes) : e[1] # e[2]}, maxEdges)} :
           nodes \in nodeLists}

\* graphs with a token the two parsers read differently, with the hyphen form,
\* with an edge from a node to itself, with the same edge twice, with three
\* versions the solver reads as one package
OddGraphs ==
    {[nodes |-> <<A1, A1x2>>, edges |-> <<>>],
     [nodes |-> <<A1, B1, A2, A1x2>>, edges |-> <<<<B1, A2>>, <<B1, A1>>>>],
     [nodes |-> <<A1x2, A2, B1>>, edges |-> <<<<B1, A2>>>>],
     [nodes |-> <<Ah10, A1, B1>>, edges |-> <<<<B1, Ah10>>, <<B1, A1>>>>],
     [nodes |-> <<A1, A2>>, edges |-> <<<<A1, A1>>>>],
     [nodes |-> <<A1, A2, B1>>, edges |-> <<<<A1, A2>>, <<B1, B1>>>>],
     [nodes |-> <<B1, A1, A2>>, edges |-> <<<<B1, A1>>, <<B1, A1>>>>]}

\* GraphGenerator.generateSampleGraphs: scenario 1, Boolean Logic
G1 ==
    LET a == Tok("A", <<"2", ".", "0">>)
        b3 == Tok("B", <<"1", ".", "3">>)
        b4 == Tok("B", <<"1", ".", "4">>)
        g5 == Tok("G", <<"0", ".", "5">>)
        g6 == Tok("G", <<"0", ".", "6">>)
        g7 == Tok("G", <<"0", ".", "7">>)
    IN  [nodes |-> <<a, b3, b4, g5, g6, g7>>,
         edges |-> <<<<a, b3>>, <<a, b4>>, <<a, g6>>, <<a, g7>>,
                     <<b3, g5>>, <<b3, g6>>, <<b4, g7>>>>]

G1Root == Tok("A", <<"2", ".", "0">>)

Torch == Tok("torch", <<"2", ".", "3", ".", "1">>)
Cuda121 == Tok("cuda", <<"12", ".", "1">>)
Cuda118 == Tok("cuda", <<"11", ".", "8">>)
Cudnn892 == Tok("cudnn", <<"8", ".", "9", ".", "2">>)
Cudnn870 == Tok("cudnn", <<"8", ".", "7", ".", "0">>)
Driver == Tok("driver", <<"35", ".", "10">>)

\* GraphGenerator.generateSampleGraphs: scenario 4, Torch GPU Stack
G4 ==
    [nodes |-> <<Torch, Cuda121, Cuda118, Cudnn892, Cudnn870, Driver>>,
     edges |-> <<<<Torch, Cuda121>>, <<Torch, Cudnn892>>, <<Cuda121, Cudnn870>>,
                 <<Cuda118, Driver>>, <<Cudnn892, Cuda118>>, <<Cudnn870, Driver>>>>]

G4Root == Torch

\* GraphGenerator.generateSampleGraphs: scenario 2, Simple Web App
G2 ==
    LET myapp == Tok("myapp", <<"1", ".", "0", ".", "0">>)
        flask2 == Tok("flask", <<"2", ".", "0", ".", "0">>)
        flask15 == Tok("flask", <<"1", ".", "5", ".", "0">>)
        req225 == Tok("req", <<"2", ".", "25", ".", "0">>)
        req220 == Tok("req", <<"2", ".", "20", ".", "0">>)
        jinja2 == Tok("jinja2", <<"3", ".", "0", ".", "0">>)
        urllib3 == Tok("urllib3", <<"1", ".", "26", ".", "0">>)
    IN  [nodes |-> <<myapp, flask2, flask15, req225, req220, jinja2, urllib3>>,
         edges |-> <<<<myapp, flask2>>, <<myapp, req225>>, <<flask2, jinja2>>,
                     <<req225, urllib3>>, <<flask15, jinja2>>, <<req220, urllib3>>>>]

G2Root == Tok("myapp", <<"1", ".", "0", ".", "0">>)

\* GraphGenerator.generateSampleGraphs: scenario 3, Data Science Stack
G3 ==
    LET sklearn == Tok("sklearn", <<"1", ".", "0", ".", "0">>)
        numpy121 == Tok("numpy", <<"1", ".", "21", ".", "0">>)
        numpy120 == Tok("numpy", <<"1", ".", "20", ".", "0">>)
        pandas13 == Tok("pandas", <<"1", ".", "3", ".", "0">>)
        pandas12 == Tok("pandas", <<"1", ".", "2", ".", "0">>)
        plotly == Tok("plotly", <<"3", ".", "4", ".", "0">>)
        scipy == Tok("scipy", <<"1", ".", "7", ".", "0">>)
        py_util == Tok("py_util", <<"2", ".", "8", ".", "0">>)
    IN  [nodes |-> <<sklearn, numpy121, numpy120, pandas13, pandas12, plotly, scipy, py_util>>,
         edges |-> <<<<sklearn, numpy121>>, <<sklearn, pandas13>>, <<sklearn, plotly>>,
                     <<pandas13, numpy121>>, <<pandas13, py_util>>, <<pandas12, numpy120>>,
                     <<pandas12, py_util>>, <<plotly, numpy121>>, <<scipy, numpy121>>>>]

G3Root == Tok("sklearn", <<"1", ".", "0", ".", "0">>)

\* GraphGenerator.generateSampleGraphs: scenario 5, Complex Interdependent Packages
G5 ==
    LET app == Tok("app", <<"1", ".", "0">>)
        libA1 == Tok("libA", <<"1", ".", "0">>)
        libA2 == Tok("libA", <<"2", ".", "0">>)
        libB1 == Tok("libB", <<"1", ".", "0">>)
        libB2 == Tok("libB", <<"2", ".", "0">>)
        libC1 == Tok("libC", <<"1", ".", "0">>)
        libC2 == Tok("libC", <<"2", ".", "0">>)
        libD1 == Tok("libD", <<"1", ".", "0">>)
        libD2 == Tok("libD", <<"2", ".", "0">>)
        libE1 == Tok("libE", <<"1", ".", "0">>)
        libE2 == Tok("libE", <<"2", ".", "0">>)
    IN  [nodes |-> <<app, libA1, libA2, libB1, libB2, libC1, libC2, libD1, libD2, libE1, libE2>>,
         edges |-> <<<<app, libA1>>, <<app, libA2>>, <<app, libB1>>, <<app, libB2>>,
                     <<libA1, libC1>>, <<libA2, libC2>>, <<libB1, libD1>>, <<libB2, libD2>>,
                     <<libC1, libE1>>, <<libC2, libE2>>, <<libD1, libE2>>, <<libD2, libE1>>,
                     <<libE1, libA2>>, <<libE2, libB1>>>>]

G5Root == Tok("app", <<"1", ".", "0">>)

\* the scenarios generateSampleGraphs returns, each with its root
Scenarios == {<<G1, G1Root>>, <<G2, G2Root>>, <<G3, G3Root>>, <<G4, G4Root>>, <<G5, G5Root>>}

\* a custom graph of WideNodes packages "1==1", "2==1", ..., the second depending on the first
WideGraph ==
    [nodes |-> [k \in 1..WideNodes |-> Tok(ToString(k), <<"1">>)],
     edges |-> <<<<Tok(ToString(2), <<"1">>), Tok(ToString(1), <<"1">>)>>>>]

\* a custom graph of HugeNodes packages "1==1", "2==1", ..., the second depending on the first
HugeGraph ==
    [nodes |-> [k \in 1..HugeNodes |-> Tok(ToString(k), <<"1">>)],
     edges |-> <<<<Tok(ToString(2), <<"1">>), Tok(ToString(1), <<"1">>)>>>>]

\* a graph with the root the caller passes with it: the Game Session's
SessionConfigurations ==
    {<<g, r>> : g \in GraphsOver(NodeLists, MaxSessionEdges), r \in Tokens}
    \cup {<<g, g.nodes[1]>> : g \in OddGraphs}
    \cup {<<G1, G1Root>>, <<G4, G4Root>>}

\* a graph with the root the caller passes with it: the BooleanSolver's
SolverConfigurations ==
    {<<g, r>> : g \in GraphsOver(NodeLists, MaxEdges), r \in Tokens}
    \cup {<<g, g.nodes[1]>> : g \in OddGraphs}

\* the calls of allSolutions followed step by step, <<graph, root, maxSolutions>>:
\* the one showSolutions makes on each scenario, calls on the session's
\* graphs and on the odd graphs, and calls on the wide graph with the root at
\* its first position, at position 14 and at its last position
SearchCalls ==
    {<<c[1], c[2], ShownSolutions>> : c \in Scenarios}
    \cup {<<c[1], c[2], MaxSolutions>> : c \in SessionConfigurations}
    \cup {<<g, g.nodes[1], m>> : g \in OddGraphs, m \in -1..MaxSolutions}
    \cup {<<WideGraph, WideGraph.nodes[1], m>> : m \in 1..MaxSolutions}
    \cup {<<WideGraph, WideGraph.nodes[14], ShownSolutions>>,
          <<WideGraph, WideGraph.nodes[WideNodes], 1>>}

\* the calls of allSolutions followed on the huge graph, with the root at
\* position 8 and at the last position
ShiftCalls ==
    {<<HugeGraph, HugeGraph.nodes[8], m>> : m \in 1..MaxSolutions}
    \cup {<<HugeGraph, HugeGraph.nodes[HugeNodes], 1>>}

\* the sessions a player follows the enumerator's answers in: the scenarios,
\* the session's graphs, and a graph of the tokens "A==1==2" and "A==1==2-1.0"
PlayConfigurations ==
    {<<G2, G2Root>>} \cup SessionConfigurations
    \cup {<<[nodes |-> <<A1x2, A1x2h10>>, edges |-> <<>>], A1x2>>}

\* the tokens the parser is run on: every string of at most MaxTokenLen
\* symbols out of a run of other characters ("p") and the three separators,
\* and the tokens "flask==2.0.0", "mypkg" and "my-pkg==1"
TokenStrings ==
    SeqsUpTo({"p", "-", "=", "."}, MaxTokenLen)
    \cup {Tok("flask", <<"2", ".", "0", ".", "0">>), <<"mypkg">>,
          <<"my", "-", "pkg", "=", "=", "1">>}

\* the tokens the session's operations are called with
Arguments(graph) == Range(graph.nodes) \cup {A2, C1}

NoCall == [op |-> "none"]

(***************************************************************************)
(* The Game Session.                                                       *)
(***************************************************************************)
Init ==
    /\ \E c \in SessionConfigurations : dependencyGraph = c[1] /\ rootPackage = c[2]
    /\ game = IF ConstructorThrows(dependencyGraph, rootPackage) THEN "error" ELSE "ready"
    /\ selectedPackages = {}
    /\ lastCall = [op |-> "new"]
    /\ solvers = <<>>
    /\ solverCall = NoCall
    /\ firstGenerated = <<>>
    /\ gameWon = FALSE

SelectPackage(packageNode) ==
    /\ game = "ready"
    /\ selectedPackages' = SelectPackageEffect(dependencyGraph, selectedPackages, packageNode)
    /\ lastCall' = [op |-> "selectPackage", arg |-> packageNode, before |-> selectedPackages,
                    ret |-> SelectPackageResult(dependencyGraph, selectedPackages, packageNode)]
    /\ UNCHANGED <<gameWon, dependencyGraph, rootPackage, game, solvers, solverCall, firstGenerated>>

DeselectPackage(packageNode) ==
    /\ game = "ready"
    /\ selectedPackages' = DeselectPackageEffect(selectedPackages, packageNode)
    /\ lastCall' = [op |-> "deselectPackage", arg |-> packageNode, before |-> selectedPackages,
                    ret |-> DeselectPackageResult(selectedPackages, packageNode)]
    /\ UNCHANGED <<gameWon, dependencyGraph, rootPackage, game, solvers, solverCall, firstGenerated>>

\* a reset that keeps the root selected
ResetKeepingRoot ==
    /\ game = "ready"
    /\ selectedPackages' = selectedPackages \cap {rootPackage}
    /\ lastCall' = [op |-> "reset", before |-> selectedPackages]
    /\ UNCHANGED <<gameWon, dependencyGraph, rootPackage, game, solvers, solverCall, firstGenerated>>

Reset ==
    /\ game = "ready"
    /\ selectedPackages' = {}
    /\ lastCall' = [op |-> "reset", before |-> selectedPackages]
    /\ UNCHANGED <<gameWon, dependencyGraph, rootPackage, game, solvers, solverCall, firstGenerated>>

CallIsValidSolution ==
    /\ game = "ready"
    /\ lastCall' = [op |-> "isValidSolution", before |-> selectedPackages,
                    ret |-> IsValidSolution(dependencyGraph, rootPackage, selectedPackages)]
    /\ UNCHANGED <<gameWon, dependencyGraph, rootPackage, game, selectedPackages, solvers, solverCall,
                   firstGenerated>>

\* showSolutions: new BooleanSolver(game.dependencyGraph, game.rootPackage).allSolutions(5)
ShowSolutions ==
    /\ game = "ready"
    /\ lastCall' = [op |-> "showSolutions", before |-> selectedPackages,
                    ret |-> AllSolutions(NewBooleanSolver(dependencyGraph, rootPackage), ShownSolutions)]
    /\ UNCHANGED <<gameWon, dependencyGraph, rootPackage, game, selectedPackages, solvers, solverCall,
                   firstGenerated>>

Next ==
    \/ \E packageNode \in Arguments(dependencyGraph) : SelectPackage(packageNode)
    \/ \E packageNode \in Arguments(dependencyGraph) : DeselectPackage(packageNode)
    \/ Reset
    \/ CallIsValidSolution
    \/ ShowSolutions

Spec == Init /\ [][Next]_vars

(***************************************************************************)
(* The player takes the selections showSolutions lists: allSolutions(5) is *)
(* called on the session's graph and root, and the session is then played  *)
(* with the tokens of the selections returned.                             *)
(***************************************************************************)
PlayInit ==
    /\ \E c \in PlayConfigurations : dependencyGraph = c[1] /\ rootPackage = c[2]
    /\ game = IF ConstructorThrows(dependencyGraph, rootPackage) THEN "error" ELSE "ready"
    /\ selectedPackages = {}
    /\ lastCall = [op |-> "new"]
    /\ solvers = <<>>
    /\ solverCall = NoCall
    /\ firstGenerated = <<>>
    /\ gameWon = FALSE

\* new BooleanSolver(game.dependencyGraph, game.rootPackage).allSolutions(5)
PlayAllSolutions ==
    /\ game = "ready"
    /\ solverCall = NoCall
    /\ solverCall' = [op |-> "allSolutions", arg |-> ShownSolutions,
                      ret |-> AllSolutions(NewBooleanSolver(dependencyGraph, rootPackage),
                                           ShownSolutions)]
    /\ UNCHANGED <<gameWon, dependencyGraph, rootPackage, game, selectedPackages, lastCall, solvers,
                   firstGenerated>>

\* the tokens of the selections allSolutions returned
ListedTokens ==
    IF solverCall = NoCall THEN {}
    ELSE UNION {solverCall.ret[k] : k \in 1..Len(solverCall.ret)}

PlayNext ==
    \/ PlayAllSolutions
    \/ \E packageNode \in ListedTokens : SelectPackage(packageNode)
    \/ Reset /\ solverCall # NoCall
    \/ CallIsValidSolution /\ solverCall # NoCall

SpecPlay == PlayInit /\ [][PlayNext]_vars

(***************************************************************************)
(* PackageGameApp on the built-in scenarios: the events of the page.       *)
(* dependencyGraph, rootPackage and selectedPackages are the fields of     *)
(* this.game.  lastCall is the event handled last: whether it ran          *)
(* updateDisplay and whether it started the balloon animation.             *)
(***************************************************************************)
\* an updateGameStatus that leaves gameWon alone when the selection is not valid
UpdateGameStatusGameWonKept(won, isValid) ==
    IF isValid THEN (IF ~won THEN TRUE ELSE won) ELSE won

\* updateGameStatus(): this.gameWon after the call
UpdateGameStatusGameWon(won, isValid) ==
    IF isValid THEN (IF ~won THEN TRUE ELSE won) ELSE FALSE

\* updateGameStatus(): createBalloonAnimation is scheduled
UpdateGameStatusBalloons(won, isValid) == isValid /\ ~won

\* isValidSolution() on a selection, from the clauses generateClauses returns
\* on the session's graph and root
IsValidWith(generated, selected) == EvaluateClauses(generated.clauses, selected).allSatisfied

\* what generateClauses returns on each scenario's graph and root: the
\* application's sessions are sessions on the scenarios, and generateClauses
\* reads nothing but the graph, the root and packageGroups
ScenarioClauses ==
    [scenario \in Scenarios |-> GenerateClauses(NewBooleanSolver(scenario[1], scenario[2]))]

\* the constructor: gameWon = false, then loadScenario(0)
AppInit ==
    /\ dependencyGraph = G1
    /\ rootPackage = G1Root
    /\ game = "ready"
    /\ selectedPackages = {}
    /\ \E loaded \in {ScenarioClauses[<<G1, G1Root>>]} :
          /\ lastCall = [op |-> "loadScenario", updated |-> TRUE, wasValid |-> FALSE,
                         balloons |-> UpdateGameStatusBalloons(FALSE, IsValidWith(loaded, {}))]
          /\ gameWon = UpdateGameStatusGameWon(FALSE, IsValidWith(loaded, {}))
    /\ solvers = <<>>
    /\ solverCall = NoCall
    /\ firstGenerated = <<>>

\* loadScenario(scenarioIndex): when the constructor of the session throws,
\* this.game stays the session it was and the display is not updated.
\* `generated` is what generateClauses returns on the session's graph and
\* root before the event; the events record with it whether the selection
\* was valid before them (wasValid).  `loaded` is what it returns on the
\* scenario's.
LoadScenarioWith(generated, clausesOf) ==
    \E scenario \in Scenarios :
    \E loaded \in {clausesOf[scenario]} :
        IF ConstructorThrows(scenario[1], scenario[2])
        THEN /\ gameWon' = FALSE
             /\ lastCall' = [op |-> "loadScenario", updated |-> FALSE,
                             wasValid |-> IsValidWith(generated, selectedPackages),
                             balloons |-> FALSE, before |-> selectedPackages,
                             wonBefore |-> gameWon]
             /\ UNCHANGED <<dependencyGraph, rootPackage, game, selectedPackages, solvers,
                            solverCall, firstGenerated>>
        ELSE /\ dependencyGraph' = scenario[1]
             /\ rootPackage' = scenario[2]
             /\ selectedPackages' = {}
             /\ gameWon' = UpdateGameStatusGameWon(FALSE, IsValidWith(loaded, {}))
             /\ lastCall' = [op |-> "loadScenario", updated |-> TRUE,
                             wasValid |-> IsValidWith(generated, selectedPackages),
                             balloons |-> UpdateGameStatusBalloons(FALSE,
                                              IsValidWith(loaded, {}))]
             /\ UNCHANGED <<game, solvers, solverCall, firstGenerated>>


\* resetGame()
ResetGameWith(generated) ==
    /\ selectedPackages' = {}
    /\ gameWon' = UpdateGameStatusGameWon(FALSE, IsValidWith(generated, {}))
    /\ lastCall' = [op |-> "resetGame", updated |-> TRUE,
                    wasValid |-> IsValidWith(generated, selectedPackages),
                    balloons |-> UpdateGameStatusBalloons(FALSE, IsValidWith(generated, {}))]
    /\ UNCHANGED <<dependencyGraph, rootPackage, game, solvers, solverCall, firstGenerated>>


\* togglePackageSelection(packageNode), for a package button or a node of the drawing
TogglePackageSelectionWith(generated) ==
    \E packageNode \in Range(dependencyGraph.nodes) :
        IF packageNode \in selectedPackages
        THEN /\ selectedPackages' = DeselectPackageEffect(selectedPackages, packageNode)
             /\ gameWon' = UpdateGameStatusGameWon(gameWon,
                                IsValidWith(generated, selectedPackages'))
             /\ lastCall' = [op |-> "togglePackageSelection", updated |-> TRUE,
                             wasValid |-> IsValidWith(generated, selectedPackages),
                             balloons |-> UpdateGameStatusBalloons(gameWon,
                                              IsValidWith(generated, selectedPackages'))]
             /\ UNCHANGED <<dependencyGraph, rootPackage, game, solvers, solverCall,
                            firstGenerated>>
        ELSE IF SelectPackageResult(dependencyGraph, selectedPackages, packageNode) \in {0, -1}
        THEN /\ selectedPackages' =
                    SelectPackageEffect(dependencyGraph, selectedPackages, packageNode)
             /\ lastCall' = [op |-> "togglePackageSelection", updated |-> FALSE,
                             wasValid |-> IsValidWith(generated, selectedPackages),
                             balloons |-> FALSE, before |-> selectedPackages,
                             wonBefore |-> gameWon]
             /\ UNCHANGED <<dependencyGraph, rootPackage, game, solvers, solverCall,
                            firstGenerated, gameWon>>
        ELSE /\ selectedPackages' =
                    SelectPackageEffect(dependencyGraph, selectedPackages, packageNode)
             /\ gameWon' = UpdateGameStatusGameWon(gameWon,
                                IsValidWith(generated, selectedPackages'))
             /\ lastCall' = [op |-> "togglePackageSelection", updated |-> TRUE,
                             wasValid |-> IsValidWith(generated, selectedPackages),
                             balloons |-> UpdateGameStatusBalloons(gameWon,
                                              IsValidWith(generated, selectedPackages'))]
             /\ UNCHANGED <<dependencyGraph, rootPackage, game, solvers, solverCall,
                            firstGenerated>>

\* the events of the page; clausesOf[<<dependencyGraph, rootPackage>>] is what
\* generateClauses returns on the session's graph and root
AppNext ==
    \E clausesOf \in {ScenarioClauses} :
        \/ TogglePackageSelectionWith(clausesOf[<<dependencyGraph, rootPackage>>])
        \/ ResetGameWith(clausesOf[<<dependencyGraph, rootPackage>>])
        \/ LoadScenarioWith(clausesOf[<<dependencyGraph, rootPackage>>], clausesOf)

SpecApp == AppInit /\ [][AppNext]_vars

\* getGameState()
CallGetGameState ==
    /\ game = "ready"
    /\ lastCall' = [op |-> "getGameState", before |-> selectedPackages,
                    ret |-> GetGameState(dependencyGraph, rootPackage, selectedPackages)]
    /\ UNCHANGED <<gameWon, dependencyGraph, rootPackage, game, selectedPackages, solvers, solverCall,
                   firstGenerated>>

\* the session with its state report: selections are made and undone, and
\* getGameState is called in any state
StateNext ==
    \/ \E packageNode \in Arguments(dependencyGraph) : SelectPackage(packageNode)
    \/ \E packageNode \in Arguments(dependencyGraph) : DeselectPackage(packageNode)
    \/ Reset
    \/ CallGetGameState

SpecState == Init /\ [][StateNext]_vars

(***************************************************************************)
(* The BooleanSolver used directly.  solvers[1] is the instance the caller *)
(* holds; NewSolver replaces it by a new instance built from the same      *)
(* graph and root.                                                         *)
(***************************************************************************)
NotGenerated == [called |-> FALSE]

SolverInit ==
    /\ \E c \in SolverConfigurations : dependencyGraph = c[1] /\ rootPackage = c[2]
    /\ game = "none"
    /\ selectedPackages = {}
    /\ lastCall = NoCall
    /\ solvers = <<NewBooleanSolver(dependencyGraph, rootPackage)>>
    /\ solverCall = [op |-> "new"]
    /\ firstGenerated = NotGenerated
    /\ gameWon = FALSE

NewSolver ==
    /\ solvers' = <<NewBooleanSolver(dependencyGraph, rootPackage)>>
    /\ solverCall' = [op |-> "new"]
    /\ UNCHANGED <<gameWon, dependencyGraph, rootPackage, game, selectedPackages, lastCall, firstGenerated>>

\* Each call below is given `generated`, what generateClauses computes on the
\* instance in the current state.

\* generateClauses()
GenerateClausesCall(generated) ==
    /\ solvers' = [solvers EXCEPT ![1].originalFormulas = generated.originalFormulas]
    /\ solverCall' = [op |-> "generateClauses", ret |-> generated.clauses,
                      again |-> firstGenerated.called]
    /\ firstGenerated' =
          IF firstGenerated.called THEN firstGenerated
          ELSE [called |-> TRUE, clauses |-> generated.clauses,
                originalFormulas |-> generated.originalFormulas]
    /\ UNCHANGED <<gameWon, dependencyGraph, rootPackage, game, selectedPackages, lastCall>>

CallGenerateClauses == GenerateClausesCall(GenerateClauses(solvers[1]))

\* evaluateAllClauses(selected), for any set of nodes
EvaluateAllClausesCall(generated) ==
    \E selected \in SUBSET Range(dependencyGraph.nodes) :
        /\ solvers' = [solvers EXCEPT ![1].originalFormulas = generated.originalFormulas]
        /\ solverCall' = [op |-> "evaluateAllClauses", arg |-> selected,
                          ret |-> EvaluateClauses(generated.clauses, selected)]
        /\ UNCHANGED <<gameWon, dependencyGraph, rootPackage, game, selectedPackages, lastCall, firstGenerated>>

CallEvaluateAllClauses == EvaluateAllClausesCall(GenerateClauses(solvers[1]))

\* allSolutions(maxSolutions)
AllSolutionsCall(generated) ==
    \E maxSolutions \in 0..MaxSolutions \cup {ShownSolutions} :
        /\ solvers' = [solvers EXCEPT ![1].originalFormulas = generated.originalFormulas]
        /\ solverCall' = [op |-> "allSolutions", arg |-> maxSolutions,
                          ret |-> SolutionsOver(solvers[1], generated.clauses, maxSolutions)]
        /\ UNCHANGED <<gameWon, dependencyGraph, rootPackage, game, selectedPackages, lastCall, firstGenerated>>

CallAllSolutions == AllSolutionsCall(GenerateClauses(solvers[1]))

\* getClauseDetails(selected), for any set of nodes
GetClauseDetailsCall(generated) ==
    \E selected \in SUBSET Range(dependencyGraph.nodes) :
        /\ solvers' = [solvers EXCEPT ![1].originalFormulas = generated.originalFormulas]
        /\ solverCall' = [op |-> "getClauseDetails", arg |-> selected,
                          ret |-> GetClauseDetails(generated, selected)]
        /\ UNCHANGED <<gameWon, dependencyGraph, rootPackage, game, selectedPackages, lastCall, firstGenerated>>

CallGetClauseDetails == GetClauseDetailsCall(GenerateClauses(solvers[1]))

SolverNext ==
    \/ NewSolver
    \/ CallGenerateClauses
    \/ CallEvaluateAllClauses
    \/ CallAllSolutions

SpecSolver == SolverInit /\ [][SolverNext]_vars

\* the solver used as the hints display uses it: getClauseDetails, and
\* evaluateAllClauses, called with any set of nodes in any order
DetailsNext ==
    \/ CallGetClauseDetails
    \/ CallEvaluateAllClauses

SpecDetails == SolverInit /\ [][DetailsNext]_vars

(***************************************************************************)
(* BooleanSolver.allSolutions followed iteration by iteration on a new     *)
(* instance.  solverCall is the activation of the call: its argument, the  *)
(* loop counter i, maxCombinations, the solutions collected so far, and    *)
(* pc, "loop" until the call returns `solutions`.                          *)
(***************************************************************************)
SearchInit ==
    /\ \E call \in SearchCalls : dependencyGraph = call[1] /\ rootPackage = call[2]
    /\ game = "none"
    /\ selectedPackages = {}
    /\ lastCall = NoCall
    /\ solvers = <<NewBooleanSolver(dependencyGraph, rootPackage)>>
    /\ solverCall = [op |-> "new"]
    /\ firstGenerated = NotGenerated
    /\ gameWon = FALSE

\* allSolutions(maxSolutions) is entered: the statements before the loop
AllSolutionsEnter ==
    /\ solverCall.op = "new"
    /\ \E call \in SearchCalls \cup ShiftCalls :
          /\ call[1] = dependencyGraph
          /\ call[2] = rootPackage
          /\ solverCall' = [op |-> "allSolutions", arg |-> call[3], pc |-> "loop", i |-> 0,
                            maxCombinations |-> MaxCombinations(Len(solvers[1].packages)),
                            solutions |-> <<>>, selectedPackages |-> {}]
    /\ UNCHANGED <<gameWon, dependencyGraph, rootPackage, game, selectedPackages, lastCall, solvers,
                   firstGenerated>>

\* a loop that steps its counter by two
AllSolutionsIterationByTwo(generated) ==
    /\ solverCall.op = "allSolutions"
    /\ solverCall.pc = "loop"
    /\ LoopContinues(solverCall.i, solverCall.maxCombinations, solverCall.solutions, solverCall.arg)
    /\ LET selected == Candidate(solvers[1].packages, solverCall.i)
           allSatisfied == EvaluateClauses(generated.clauses, selected).allSatisfied
       IN  solverCall' = [solverCall EXCEPT
                            !.i = @ + 2,
                            !.selectedPackages = selected,
                            !.solutions = IF IsSolution(solvers[1], allSatisfied, selected)
                                          THEN Append(@, selected)
                                          ELSE @]
    /\ solvers' = [solvers EXCEPT ![1].originalFormulas = generated.originalFormulas]
    /\ UNCHANGED <<gameWon, dependencyGraph, rootPackage, game, selectedPackages, lastCall, firstGenerated>>

\* one iteration of the outer loop; `generated` is what the generateClauses
\* call inside evaluateAllClauses computes
AllSolutionsIteration(generated) ==
    /\ solverCall.op = "allSolutions"
    /\ solverCall.pc = "loop"
    /\ LoopContinues(solverCall.i, solverCall.maxCombinations, solverCall.solutions, solverCall.arg)
    /\ LET selected == Candidate(solvers[1].packages, solverCall.i)
           allSatisfied == EvaluateClauses(generated.clauses, selected).allSatisfied
       IN  solverCall' = [solverCall EXCEPT
                            !.i = @ + 1,
                            !.selectedPackages = selected,
                            !.solutions = IF IsSolution(solvers[1], allSatisfied, selected)
                                          THEN Append(@, selected)
                                          ELSE @]
    /\ solvers' = [solvers EXCEPT ![1].originalFormulas = generated.originalFormulas]
    /\ UNCHANGED <<gameWon, dependencyGraph, rootPackage, game, selectedPackages, lastCall, firstGenerated>>

AllSolutionsIterate == AllSolutionsIteration(GenerateClauses(solvers[1]))

\* the loop condition is false: return solutions
AllSolutionsReturn ==
    /\ solverCall.op = "allSolutions"
    /\ solverCall.pc = "loop"
    /\ ~LoopContinues(solverCall.i, solverCall.maxCombinations, solverCall.solutions, solverCall.arg)
    /\ solverCall' = [solverCall EXCEPT !.pc = "returned"]
    /\ UNCHANGED <<gameWon, dependencyGraph, rootPackage, game, selectedPackages, lastCall, solvers,
                   firstGenerated>>

SearchNext ==
    \/ AllSolutionsEnter
    \/ AllSolutionsIterate
    \/ AllSolutionsReturn

SpecSearch == SearchInit /\ [][SearchNext]_vars

\* allSolutions followed on the huge graph
ShiftInit ==
    /\ \E call \in ShiftCalls : dependencyGraph = call[1] /\ rootPackage = call[2]
    /\ game = "none"
    /\ selectedPackages = {}
    /\ lastCall = NoCall
    /\ solvers = <<NewBooleanSolver(dependencyGraph, rootPackage)>>
    /\ solverCall = [op |-> "new"]
    /\ firstGenerated = NotGenerated
    /\ gameWon = FALSE

SpecShift == ShiftInit /\ [][SearchNext]_vars

(***************************************************************************)
(* The parsers: parsePackageNode, getPackageName and getPackageVersion     *)
(* called on a session of scenario 1, and getPackageName called on a       *)
(* solver of scenario 1, with a token the caller holds (lastCall.arg).     *)
(***************************************************************************)
ParseInit ==
    /\ dependencyGraph = G1
    /\ rootPackage = G1Root
    /\ game = "ready"
    /\ selectedPackages = {}
    /\ \E node \in TokenStrings : lastCall = [op |-> "new", arg |-> node]
    /\ solvers = <<NewBooleanSolver(dependencyGraph, rootPackage)>>
    /\ solverCall = [op |-> "new"]
    /\ firstGenerated = NotGenerated
    /\ gameWon = FALSE

CallParsePackageNode ==
    /\ lastCall' = [op |-> "parsePackageNode", arg |-> lastCall.arg,
                    ret |-> ParsePackageNode(lastCall.arg)]
    /\ UNCHANGED <<gameWon, dependencyGraph, rootPackage, game, selectedPackages, solvers, solverCall,
                   firstGenerated>>

CallGetPackageName ==
    /\ lastCall' = [op |-> "getPackageName", arg |-> lastCall.arg,
                    ret |-> GameGetPackageName(lastCall.arg)]
    /\ UNCHANGED <<gameWon, dependencyGraph, rootPackage, game, selectedPackages, solvers, solverCall,
                   firstGenerated>>

CallGetPackageVersion ==
    /\ lastCall' = [op |-> "getPackageVersion", arg |-> lastCall.arg,
                    ret |-> GameGetPackageVersion(lastCall.arg)]
    /\ UNCHANGED <<gameWon, dependencyGraph, rootPackage, game, selectedPackages, solvers, solverCall,
                   firstGenerated>>

\* BooleanSolver.getPackageName called with the same token on a solver of the same graph
CallSolverGetPackageName ==
    /\ solverCall' = [op |-> "getPackageName", arg |-> lastCall.arg,
                      ret |-> GetPackageName(lastCall.arg)]
    /\ UNCHANGED <<gameWon, dependencyGraph, rootPackage, game, selectedPackages, lastCall, solvers,
                   firstGenerated>>

ParseNext ==
    \/ CallParsePackageNode
    \/ CallGetPackageName
    \/ CallGetPackageVersion
    \/ CallSolverGetPackageName

SpecParse == ParseInit /\ [][ParseNext]_vars

(***************************************************************************)
(* Properties.                                                             *)
(***************************************************************************)
Nodes == Range(dependencyGraph.nodes)

\* a token of the form name==version: no hyphen, one double-equals
WellFormed(token) == ~StrIncludes(token, HYPHEN) /\ Len(Split(token, EQEQ)) = 2

\* the targets of the edges that leave the node
Targets(packageNode) ==
    {dependencyGraph.edges[e][2] :
        e \in {k \in 1..Len(dependencyGraph.edges) : dependencyGraph.edges[k][1] = packageNode}}

\* the three rules of the game, stated on a selection
RootChosen(selected) == rootPackage \in selected

OneVersionEach(selected) ==
    \A p, q \in selected : p # q => GetPackageName(p) # GetPackageName(q)

DependenciesMet(selected) ==
    \A p \in selected : \A d \in Targets(p) :
        \E t \in Targets(p) : GetPackageName(t) = GetPackageName(d) /\ t \in selected

\* C1: on a graph of well-formed tokens whose root is a node, evaluateAllClauses(S)
\* reports allSatisfied exactly when the root is in S, no two tokens of S share a
\* package name, and every dependency name of every token of S has one of that
\* token's targets of this name in S.
C1_EvaluateCharacterised ==
    (/\ solverCall.op = "evaluateAllClauses"
     /\ \A n \in Nodes : WellFormed(n)
     /\ rootPackage \in Nodes)
    => (solverCall.ret.allSatisfied
            <=> (/\ RootChosen(solverCall.arg)
                 /\ OneVersionEach(solverCall.arg)
                 /\ DependenciesMet(solverCall.arg)))

C1_Witness ==
    /\ solverCall.op = "evaluateAllClauses"
    /\ \A n \in Nodes : WellFormed(n)
    /\ Len(dependencyGraph.edges) >= 2
    /\ Cardinality(solverCall.arg) >= 2
    /\ solverCall.ret.allSatisfied

\* C2: the selection of a session never holds two different tokens that the
\* session reads as the same package name.
C2_OneVersionSelected ==
    game = "ready" =>
        \A p, q \in selectedPackages :
            p # q => GameGetPackageName(p) # GameGetPackageName(q)

C2_Witness ==
    /\ game = "ready"
    /\ Cardinality(selectedPackages) >= 2
    /\ lastCall.op = "selectPackage"
    /\ lastCall.ret = 0

\* what generateClauses returns and records for the session's graph and root
SessionClauses == GenerateClauses(NewBooleanSolver(dependencyGraph, rootPackage))

\* C3: in every selection a session reaches, every version_constraint clause
\* the solver generates for the session's graph evaluates to true.
C3_SessionKeepsVersionClauses ==
    game = "ready" =>
        \A k \in 1..Len(SessionClauses.clauses) :
            SessionClauses.originalFormulas[k].type = "version_constraint"
                => EvaluateClause(SessionClauses.clauses[k], selectedPackages)

\* C4: every selection allSolutions returns is a set of nodes, holds the root
\* and is one evaluateAllClauses reports as allSatisfied.
C4_SolutionsSound ==
    solverCall.op = "allSolutions" =>
        \A k \in 1..Len(solverCall.ret) :
            /\ solverCall.ret[k] \subseteq Nodes
            /\ rootPackage \in solverCall.ret[k]
            /\ EvaluateAllClauses(solvers[1], solverCall.ret[k]).allSatisfied

C4_Witness ==
    /\ solverCall.op = "allSolutions"
    /\ Len(solverCall.ret) >= 2
    /\ Len(dependencyGraph.edges) >= 1

\* C5: the Torch GPU Stack scenario is unsatisfiable: allSolutions(5) returns
\* the empty sequence, and isValidSolution() is false of every selection the
\* session reaches.
C5_TorchUnsatisfiable ==
    (dependencyGraph = G4 /\ rootPackage = G4Root /\ game = "ready") =>
        /\ lastCall.op = "showSolutions" => lastCall.ret = <<>>
        /\ ~IsValidSolution(dependencyGraph, rootPackage, selectedPackages)

C5_Witness ==
    /\ dependencyGraph = G4 /\ rootPackage = G4Root
    /\ lastCall.op = "showSolutions"
    /\ lastCall.ret = <<>>
    /\ selectedPackages = {Torch, Cuda121, Cudnn892, Driver}

\* C6: selectPackage of a node returns 0 and leaves the selection as it was
\* when a selected token (the node itself included) has the node's package
\* name; otherwise it returns 1 and the selection is the old one with the node.
\* So, with torch==2.3.1 and cuda==12.1 selected, selecting cuda==11.8
\* returns 0 and changes nothing.
C6_SelectNode ==
    (lastCall.op = "selectPackage" /\ lastCall.arg \in Nodes) =>
        /\ IF \E sel \in lastCall.before :
                  GameGetPackageName(sel) = GameGetPackageName(lastCall.arg)
           THEN lastCall.ret = 0 /\ selectedPackages = lastCall.before
           ELSE lastCall.ret = 1 /\ selectedPackages = lastCall.before \cup {lastCall.arg}
        /\ (lastCall.before = {Torch, Cuda121} /\ lastCall.arg = Cuda118)
              => lastCall.ret = 0 /\ selectedPackages = {Torch, Cuda121}

C6_Witness ==
    /\ dependencyGraph = G4
    /\ lastCall.op = "selectPackage"
    /\ lastCall.before = {Torch, Cuda121}
    /\ lastCall.arg = Cuda118
    /\ lastCall.ret = 0

\* C7: selectPackage of a token that is no node returns -1 and leaves the
\* selection as it was, also when a selected token has the token's name.
C7_SelectNonNode ==
    (lastCall.op = "selectPackage" /\ lastCall.arg \notin Nodes) =>
        lastCall.ret = -1 /\ selectedPackages = lastCall.before

C7_Witness ==
    /\ lastCall.op = "selectPackage"
    /\ lastCall.arg \notin Nodes
    /\ \E sel \in lastCall.before : GameGetPackageName(sel) = GameGetPackageName(lastCall.arg)
    /\ lastCall.ret = -1

\* C8: the constructor throws exactly when the root is no node of the graph,
\* so that no session has a root outside its graph; a session that was
\* constructed starts with the empty selection.
C8_ConstructorValidatesRoot ==
    /\ game = "ready" <=> rootPackage \in Nodes
    /\ game = "error" <=> rootPackage \notin Nodes
    /\ lastCall.op = "new" => selectedPackages = {}
    /\ game = "error" => lastCall.op = "new"

C8_Witness ==
    /\ game = "error"
    /\ rootPackage \notin Nodes
    /\ Nodes # {}

\* C9: when the root is no node of the graph, the solver never returns a clause
\* list that no set of nodes satisfies (it fails instead).
C9_SolverRejectsForeignRoot ==
    ~ (/\ rootPackage \notin Nodes
       /\ solverCall.op = "generateClauses"
       /\ \A selected \in SUBSET Nodes :
             ~EvaluateClauses(solverCall.ret, selected).allSatisfied)

\* C10: every generateClauses call returns the clause list, and records the
\* formulas, that the first call made for this graph and root returned and
\* recorded, whatever instance it is made on and whatever was called between.
C10_GenerateDeterministic ==
    solverCall.op = "generateClauses" =>
        /\ firstGenerated.called
        /\ solverCall.ret = firstGenerated.clauses
        /\ solvers[1].originalFormulas = firstGenerated.originalFormulas

C10_Witness ==
    /\ solverCall.op = "generateClauses"
    /\ solverCall.again
    /\ Len(solverCall.ret) >= 4

\* the activation of allSolutions: running or returned
InAllSolutions == solverCall.op = "allSolutions"

AllSolutionsReturned == InAllSolutions /\ solverCall.pc = "returned"

\* the selection the binary counter value i stands for: node k is in it when bit k - 1 of i is set
SelectionOfCounter(i) ==
    {dependencyGraph.nodes[k] :
        k \in {k \in 1..Len(dependencyGraph.nodes) : (i \div (2 ^ (k - 1))) % 2 = 1}}

C11_ExaminedBounded ==
    InAllSolutions =>
        /\ solverCall.i <= 2 ^ Len(dependencyGraph.nodes)
        /\ solverCall.i <= 10000
        /\ solverCall.arg <= 0 => solverCall.i = 0
        /\ (solverCall.arg >= 1 /\ Len(solverCall.solutions) >= solverCall.arg) =>
              /\ Len(solverCall.solutions) = solverCall.arg
              /\ solverCall.solutions[solverCall.arg] = SelectionOfCounter(solverCall.i - 1)

\* what is left of a call: 0 once it has returned, and before that one more
\* than the number of counter values the loop has not reached
StepsLeft ==
    IF ~InAllSolutions THEN 10002
    ELSE IF solverCall.pc = "loop" THEN solverCall.maxCombinations - solverCall.i + 1
    ELSE 0

\* C11: allSolutions terminates: every step of a call makes StepsLeft, a
\* natural number, smaller, so no call takes more than 10002 steps.  The
\* number of candidates examined (the counter i) never exceeds 2^|nodes| nor
\* 10000; with maxSolutions <= 0 none is examined, and once maxSolutions
\* solutions are collected the last candidate examined is the last solution.
C11_TerminatesWithinBound ==
    [][/\ StepsLeft' >= 0
       /\ StepsLeft' < StepsLeft
       /\ C11_ExaminedBounded']_vars

\* a call on a graph with more than 10000 selections has returned after examining 10000 of them
C11_Witness ==
    /\ AllSolutionsReturned
    /\ 2 ^ Len(dependencyGraph.nodes) > 10000
    /\ solverCall.i = 10000
    /\ solverCall.arg >= 1

\* the counter value that stands for a selection of nodes
RECURSIVE CounterUpTo(_, _)
CounterUpTo(selected, k) ==
    IF k = 0 THEN 0
    ELSE CounterUpTo(selected, k - 1)
         + (IF dependencyGraph.nodes[k] \in selected THEN 2 ^ (k - 1) ELSE 0)

CounterOf(selected) == CounterUpTo(selected, Len(dependencyGraph.nodes))

\* the selection of counter value c satisfies every clause and contains the root
Satisfying(clauses, c) ==
    /\ EvaluateClauses(clauses, SelectionOfCounter(c)).allSatisfied
    /\ rootPackage \in SelectionOfCounter(c)

\* solutions are, in ascending order of their counter values, the satisfying
\* selections among the counter values 0..last
ExactlyTheSatisfying(clauses, solutions, last) ==
    /\ \A k \in 1..Len(solutions) :
          /\ solutions[k] \subseteq Nodes
          /\ CounterOf(solutions[k]) <= last
    /\ \A k \in 1..(Len(solutions) - 1) : CounterOf(solutions[k]) < CounterOf(solutions[k + 1])
    /\ \A c \in 0..last :
          Satisfying(clauses, c) <=> \E k \in 1..Len(solutions) : solutions[k] = SelectionOfCounter(c)

\* C12: what allSolutions(maxSolutions) returns is empty when maxSolutions
\* <= 0 and never longer than maxSolutions; listed in ascending order of the
\* binary counter, it holds exactly the selections that satisfy every clause
\* and contain the root among the counter values up to that of its last entry
\* when it is full, and among all the min(2^|nodes|, 10000) values examined
\* when it is not.
C12_FirstSolutionsInOrder ==
    AllSolutionsReturned =>
        /\ solverCall.arg <= 0 => solverCall.solutions = <<>>
        /\ solverCall.arg >= 1 =>
              /\ Len(solverCall.solutions) <= solverCall.arg
              /\ ExactlyTheSatisfying(
                    GenerateClauses(solvers[1]).clauses, solverCall.solutions,
                    IF Len(solverCall.solutions) = solverCall.arg
                    THEN CounterOf(solverCall.solutions[solverCall.arg])
                    ELSE Min(2 ^ Len(dependencyGraph.nodes), 10000) - 1)

\* a call that returned maxSolutions >= 2 solutions before the end of the range
C12_Witness ==
    /\ AllSolutionsReturned
    /\ solverCall.arg >= 2
    /\ Len(solverCall.solutions) = solverCall.arg
    /\ solverCall.i < solverCall.maxCombinations

\* some subset of the graph's nodes satisfies every clause
Satisfiable(clauses) ==
    \E selected \in SUBSET Nodes : EvaluateClauses(clauses, selected).allSatisfied

\* C13: for maxSolutions >= 1, allSolutions returns an empty sequence exactly
\* when no subset of the graph's nodes satisfies every clause.
C13_EmptyIffUnsatisfiable ==
    (AllSolutionsReturned /\ solverCall.arg >= 1) =>
        (solverCall.solutions = <<>> <=> ~Satisfiable(GenerateClauses(solvers[1]).clauses))

\* the subsets of the graph's nodes that satisfy every clause
SatisfyingSelections(clauses) ==
    {selected \in SUBSET Nodes : EvaluateClauses(clauses, selected).allSatisfied}

\* C14: on each of the five scenarios of generateSampleGraphs, the selections
\* that allSolutions(5), the call showSolutions makes, returns are all the
\* subsets of the scenario's nodes that satisfy every clause.
C14_ScenarioSolutionsComplete ==
    (/\ <<dependencyGraph, rootPackage>> \in Scenarios
     /\ AllSolutionsReturned
     /\ solverCall.arg = ShownSolutions) =>
        Range(solverCall.solutions) = SatisfyingSelections(GenerateClauses(solvers[1]).clauses)

\* the call has returned a solution of scenario 5, the largest scenario
C14_Witness ==
    /\ dependencyGraph = G5
    /\ rootPackage = G5Root
    /\ AllSolutionsReturned
    /\ solverCall.arg = ShownSolutions
    /\ solverCall.solutions # <<>>

\* the precedence as documented: the hyphen form when it qualifies, otherwise
\* the double-equals form when it splits in two, otherwise the fallback
DocumentedParse(node) ==
    LET hyphenParts == Split(node, HYPHEN)
        equalsParts == Split(node, EQEQ)
    IN  IF Len(hyphenParts) = 2 /\ StrIncludes(hyphenParts[2], DOT)
        THEN <<hyphenParts[1], hyphenParts[2]>>
        ELSE IF Len(equalsParts) = 2
        THEN <<equalsParts[1], equalsParts[2]>>
        ELSE <<node, <<"1", ".", "0", ".", "0">>>>

\* C15: parsePackageNode returns, for every token, the two parts around its
\* one hyphen when the second contains a dot; otherwise the two parts around
\* its one double-equals; otherwise the token with the version "1.0.0".
C15_ParseFollowsDocumentedPrecedence ==
    lastCall.op = "parsePackageNode" => lastCall.ret = DocumentedParse(lastCall.arg)

\* C16: deselectPackage(token) returns true exactly when the token was
\* selected; the selection after the call is the selection before it without
\* the token, so nothing changes when it returns false, no other token is
\* removed, and the same call made again returns false.
C16_DeselectRemovesOnlyToken ==
    lastCall.op = "deselectPackage" =>
        /\ lastCall.ret = (lastCall.arg \in lastCall.before)
        /\ selectedPackages = lastCall.before \ {lastCall.arg}
        /\ ~lastCall.ret => selectedPackages = lastCall.before
        /\ ~DeselectPackageResult(selectedPackages, lastCall.arg)

\* a token was deselected while another token was selected
C16_Witness ==
    /\ lastCall.op = "deselectPackage"
    /\ lastCall.ret
    /\ selectedPackages # {}

\* C17: a reset leaves the selection empty and the graph and the root as they
\* were, a reset after a reset changes nothing, and after a reset
\* selectPackage returns 1 for every node of the graph.
C17_ResetClears ==
    [][lastCall'.op = "reset" =>
          /\ selectedPackages' = {}
          /\ dependencyGraph' = dependencyGraph
          /\ rootPackage' = rootPackage
          /\ lastCall.op = "reset" => selectedPackages' = selectedPackages
          /\ \A node \in Range(dependencyGraph'.nodes) :
                SelectPackageResult(dependencyGraph', selectedPackages', node) = 1]_vars

\* a reset was made on a selection that was not empty
C17_Witness ==
    /\ lastCall.op = "reset"
    /\ lastCall.before # {}
    /\ selectedPackages = {}

\* evaluateAllClauses(new Set()) on a new solver of the session's graph and root
EmptyEvaluation == EvaluateAllClauses(NewBooleanSolver(dependencyGraph, rootPackage), {})

\* C18: the empty selection is never valid: evaluateAllClauses of it is not
\* allSatisfied and its first result, that of the root clause, is false; so
\* isValidSolution() is false whenever the selection is empty, in the
\* initial state and after every reset.
C18_EmptySelectionInvalid ==
    /\ ~EmptyEvaluation.allSatisfied
    /\ ~EmptyEvaluation.results[1]
    /\ (game = "ready" /\ selectedPackages = {}) =>
          ~IsValidSolution(dependencyGraph, rootPackage, selectedPackages)
    /\ (lastCall.op = "isValidSolution" /\ lastCall.before = {}) => ~lastCall.ret

\* a valid solution was reset
C18_Witness ==
    /\ lastCall.op = "reset"
    /\ IsValidSolution(dependencyGraph, rootPackage, lastCall.before)
    /\ selectedPackages = {}

\* isValidSolution() on the selection
Won(selected) == IsValidSolution(dependencyGraph, rootPackage, selected)

\* another selected package has an edge to the package, and no other
\* selected target of that edge's source is a version of the same package
NeededBySelected(packageNode, selected) ==
    \E q \in selected \ {packageNode} :
        /\ packageNode \in Targets(q)
        /\ \A t \in (Targets(q) \cap selected) \ {packageNode} :
              GetPackageName(t) # GetPackageName(packageNode)

\* C19: a valid solution is not a final state: in it selectPackage and
\* deselectPackage can be called with every token and reset can be called;
\* deselecting the root, or a package a selected package needs, from a valid
\* solution gives a selection on which isValidSolution() is false; and what
\* isValidSolution() returns is what the clauses say of the selection at the
\* time of the call.
C19_WinningNotTerminal ==
    /\ (game = "ready" /\ Won(selectedPackages)) =>
          /\ \A packageNode \in Arguments(dependencyGraph) :
                ENABLED SelectPackage(packageNode) /\ ENABLED DeselectPackage(packageNode)
          /\ ENABLED Reset
    /\ (/\ lastCall.op = "deselectPackage"
        /\ lastCall.arg \in lastCall.before
        /\ Won(lastCall.before)
        /\ lastCall.arg = rootPackage \/ NeededBySelected(lastCall.arg, lastCall.before)) =>
          ~Won(selectedPackages)
    /\ lastCall.op = "isValidSolution" =>
          lastCall.ret =
            EvaluateAllClauses(NewBooleanSolver(dependencyGraph, rootPackage), selectedPackages).allSatisfied

\* a package the root needs was deselected from a valid solution
C19_Witness ==
    /\ lastCall.op = "deselectPackage"
    /\ lastCall.arg \in lastCall.before
    /\ lastCall.arg # rootPackage
    /\ Won(lastCall.before)
    /\ NeededBySelected(lastCall.arg, lastCall.before)

\* C20: every operation of a constructed session completes and leaves the
\* session usable: selectPackage, deselectPackage (every argument) and reset
\* can always be called; selectPackage returns -1, 0 or 1, deselectPackage
\* and isValidSolution return true or false; and a call that returned -1, 0
\* or false has left the selection as it was.
C20_RejectionByReturnValue ==
    game = "ready" =>
        /\ \A packageNode \in Arguments(dependencyGraph) :
              ENABLED SelectPackage(packageNode) /\ ENABLED DeselectPackage(packageNode)
        /\ ENABLED Reset
        /\ lastCall.op \in {"new", "selectPackage", "deselectPackage", "reset", "isValidSolution",
                             "showSolutions"}
        /\ lastCall.op = "selectPackage" =>
              /\ lastCall.ret \in {-1, 0, 1}
              /\ lastCall.ret \in {-1, 0} => selectedPackages = lastCall.before
        /\ lastCall.op = "deselectPackage" =>
              /\ lastCall.ret \in BOOLEAN
              /\ ~lastCall.ret => selectedPackages = lastCall.before
        /\ lastCall.op = "isValidSolution" =>
              /\ lastCall.ret \in BOOLEAN
              /\ selectedPackages = lastCall.before

\* a token that is no node was deselected, to no effect on the selection
C20_Witness ==
    /\ game = "ready"
    /\ lastCall.op = "deselectPackage"
    /\ lastCall.arg \notin Nodes
    /\ ~lastCall.ret
    /\ selectedPackages # {}

\* after a generateClauses call: the positions of the clauses of a type
ClausesOfType(type) ==
    {c \in 1..Len(solverCall.ret) : solvers[1].originalFormulas[c].type = type}

\* the pairs of node positions a < b whose tokens the solver reads as versions of one package
VersionPairs ==
    {pair \in (1..Len(dependencyGraph.nodes)) \X (1..Len(dependencyGraph.nodes)) :
        /\ pair[1] < pair[2]
        /\ GetPackageName(dependencyGraph.nodes[pair[1]]) = GetPackageName(dependencyGraph.nodes[pair[2]])}

VersionClauseOf(pair) ==
    <<<<dependencyGraph.nodes[pair[1]], FALSE>>, <<dependencyGraph.nodes[pair[2]], FALSE>>>>

\* C21: among the clauses generateClauses returns, those of type
\* version_constraint are, one for one, the clauses [(v1, false), (v2, false)]
\* of the pairs of nodes of the same package name, v1 before v2 in the node
\* list; the clauses of one package come in ascending order of the pair; and
\* each of them is false exactly on the selections that hold both its tokens.
C21_VersionClausesPairwise ==
    solverCall.op = "generateClauses" =>
        /\ Len(solvers[1].originalFormulas) = Len(solverCall.ret)
        /\ Cardinality(ClausesOfType("version_constraint")) = Cardinality(VersionPairs)
        /\ \A pair \in VersionPairs :
              \E c \in ClausesOfType("version_constraint") : solverCall.ret[c] = VersionClauseOf(pair)
        /\ \A c \in ClausesOfType("version_constraint") :
              /\ \E pair \in VersionPairs : solverCall.ret[c] = VersionClauseOf(pair)
              /\ \A selected \in SUBSET Nodes :
                    ~EvaluateClause(solverCall.ret[c], selected)
                        <=> (solverCall.ret[c][1][1] \in selected /\ solverCall.ret[c][2][1] \in selected)
        /\ \A c1, c2 \in ClausesOfType("version_constraint") :
              \A pair1, pair2 \in VersionPairs :
                  (/\ c1 < c2
                   /\ solverCall.ret[c1] = VersionClauseOf(pair1)
                   /\ solverCall.ret[c2] = VersionClauseOf(pair2)
                   /\ GetPackageName(dependencyGraph.nodes[pair1[1]])
                        = GetPackageName(dependencyGraph.nodes[pair2[1]]))
                  => (pair1[1] < pair2[1] \/ (pair1[1] = pair2[1] /\ pair1[2] < pair2[2]))

\* clauses were generated for a package of three versions
C21_Witness ==
    /\ solverCall.op = "generateClauses"
    /\ Cardinality(VersionPairs) = 3
    /\ Cardinality(ClausesOfType("version_constraint")) = 3

\* the pairs <<position of a node, package name of one of its edges' targets>>
DependencyPairs ==
    {pair \in (1..Len(dependencyGraph.nodes)) \X {GetPackageName(n) : n \in Nodes} :
        \E t \in Targets(dependencyGraph.nodes[pair[1]]) : GetPackageName(t) = pair[2]}

\* [(P, false)] and then (d, true) for the targets d, of the name, of P's edges in edge order
DependencyClauseOf(pair) ==
    LET OfPair(edge) ==
            edge[1] = dependencyGraph.nodes[pair[1]] /\ GetPackageName(edge[2]) = pair[2]
        edges == SelectSeq(dependencyGraph.edges, OfPair)
    IN  <<<<dependencyGraph.nodes[pair[1]], FALSE>>>> \o [e \in 1..Len(edges) |-> <<edges[e][2], TRUE>>]

\* the position in the node list of the token a dependency clause starts with
SourcePosition(clause) ==
    CHOOSE k \in 1..Len(dependencyGraph.nodes) : dependencyGraph.nodes[k] = clause[1][1]

\* C22: the first clause generateClauses returns is the root clause
\* [(root, true)]; then come the version_constraint clauses, then the
\* dependency clauses.  The dependency clauses are, one for one, those of the
\* pairs of a node and a package name among the targets of its edges: the
\* node negated, then the targets of that name in edge order; they come in
\* the order of their nodes in the node list.
C22_DependencyClausesPerName ==
    solverCall.op = "generateClauses" =>
        /\ solverCall.ret[1] = <<<<rootPackage, TRUE>>>>
        /\ ClausesOfType("root") = {1}
        /\ ClausesOfType("root") \cup ClausesOfType("version_constraint") \cup ClausesOfType("dependency")
              = 1..Len(solverCall.ret)
        /\ \A c1 \in ClausesOfType("version_constraint") : \A c2 \in ClausesOfType("dependency") : c1 < c2
        /\ Cardinality(ClausesOfType("dependency")) = Cardinality(DependencyPairs)
        /\ \A pair \in DependencyPairs :
              \E c \in ClausesOfType("dependency") : solverCall.ret[c] = DependencyClauseOf(pair)
        /\ \A c \in ClausesOfType("dependency") :
              \E pair \in DependencyPairs : solverCall.ret[c] = DependencyClauseOf(pair)
        /\ \A c1, c2 \in ClausesOfType("dependency") :
              c1 < c2 => SourcePosition(solverCall.ret[c1]) <= SourcePosition(solverCall.ret[c2])

\* a node with edges to two versions of a package got one clause for both
C22_Witness ==
    /\ solverCall.op = "generateClauses"
    /\ Cardinality(ClausesOfType("dependency")) < Len(dependencyGraph.edges)
    /\ \E c \in ClausesOfType("dependency") :
          /\ Len(solverCall.ret[c]) = 3
          /\ solverCall.ret[c][2][1] # solverCall.ret[c][3][1]

\* what a new solver of the same graph and root generates
FreshlyGenerated == GenerateClauses(NewBooleanSolver(dependencyGraph, rootPackage))

DetailsAgree(generated, evaluation, details) ==
    /\ Len(generated.originalFormulas) = Len(generated.clauses)
    /\ Len(details) = Len(generated.clauses)
    /\ \A k \in 1..Len(details) :
          /\ details[k].index = k
          /\ details[k].satisfied = evaluation.results[k]
          /\ details[k].type = generated.originalFormulas[k].type
          /\ details[k].originalFormula = generated.originalFormulas[k].formula
          /\ details[k].description = generated.originalFormulas[k].description
    /\ (\A k \in 1..Len(details) : details[k].satisfied) = evaluation.allSatisfied

\* C23: getClauseDetails(S) returns one entry for each clause, in clause
\* order: entry k has index k, the satisfied value evaluateAllClauses(S) gives
\* for clause k, and the type, formula and description recorded for clause k;
\* all entries are satisfied exactly when evaluateAllClauses(S) is
\* allSatisfied.  Every evaluateAllClauses call, those made after a
\* getClauseDetails call among them, returns what a new solver returns.
C23_DetailsAgreeWithEvaluation ==
    /\ solverCall.op = "getClauseDetails" =>
          DetailsAgree(FreshlyGenerated,
                       EvaluateClauses(FreshlyGenerated.clauses, solverCall.arg), solverCall.ret)
    /\ solverCall.op = "evaluateAllClauses" =>
          solverCall.ret = EvaluateClauses(FreshlyGenerated.clauses, solverCall.arg)

\* details were returned with a satisfied and an unsatisfied clause
C23_Witness ==
    /\ solverCall.op = "getClauseDetails"
    /\ Len(solverCall.ret) >= 3
    /\ \E k \in 1..Len(solverCall.ret) : solverCall.ret[k].satisfied
    /\ \E k \in 1..Len(solverCall.ret) : ~solverCall.ret[k].satisfied

\* C24: BooleanSolver.getPackageName and PackageDependencyGame.getPackageName
\* return the same name for every token.
C24_ParsersAgree ==
    (lastCall.op = "getPackageName" /\ solverCall.op = "getPackageName") =>
        lastCall.ret = solverCall.ret

\* C25: in what getGameState returns, constraintViolations is empty and the
\* root is among selectedPackages exactly when isValidSolution is true.
C25_ReportsAgree ==
    lastCall.op = "getGameState" =>
        ((lastCall.ret.constraintViolations = {} /\ rootPackage \in lastCall.ret.selectedPackages)
            <=> lastCall.ret.isValidSolution)

\* C26: on a graph of at most 13 nodes, allSolutions(maxSolutions) with
\* maxSolutions >= 0 returns min(maxSolutions, N) selections, no two of them
\* equal, N being the number of subsets of the nodes that satisfy every clause.
C26_CompleteOnSmallGraphs ==
    (/\ AllSolutionsReturned
     /\ Len(dependencyGraph.nodes) <= 13
     /\ solverCall.arg >= 0) =>
        /\ Len(solverCall.solutions)
              = Min(solverCall.arg,
                    Cardinality(SatisfyingSelections(GenerateClauses(solvers[1]).clauses)))
        /\ \A k1, k2 \in 1..Len(solverCall.solutions) :
              k1 # k2 => solverCall.solutions[k1] # solverCall.solutions[k2]

\* a call returned fewer selections than asked for: all there are
C26_Witness ==
    /\ AllSolutionsReturned
    /\ Len(dependencyGraph.nodes) <= 13
    /\ Len(solverCall.solutions) >= 2
    /\ Len(solverCall.solutions) < solverCall.arg

\* bit j of the integer i is 1
BitOfCounter(i, j) == HalvedTimes(i, j) % 2 = 1

\* the candidate of the iteration that has just run: of counter value i - 1
CandidateBuilt == InAllSolutions /\ solverCall.i > 0

\* C27: the candidate allSolutions builds for counter value i contains the
\* node at position j exactly when bit j of i is 1, on graphs of 32 or more
\* nodes too, so no node at position 14 or higher is ever in a candidate.
C27_CandidateIsCounterBits ==
    CandidateBuilt =>
        /\ \A j \in 0..(Len(dependencyGraph.nodes) - 1) :
              dependencyGraph.nodes[j + 1] \in solverCall.selectedPackages
                  <=> BitOfCounter(solverCall.i - 1, j)
        /\ \A j \in 14..(Len(dependencyGraph.nodes) - 1) :
              dependencyGraph.nodes[j + 1] \notin solverCall.selectedPackages

\* C28: every selection S allSolutions returns can be played: in a session
\* on the same graph and root, selectPackage of a token of S not yet selected,
\* on a selection inside S, returns 1 and adds the token, and isValidSolution() on the
\* selection S returns true.
C28_SolutionsPlayable ==
    solverCall # NoCall =>
        \A k \in 1..Len(solverCall.ret) :
            /\ (/\ lastCall.op = "selectPackage"
                /\ lastCall.before \subseteq solverCall.ret[k]
                /\ lastCall.arg \in solverCall.ret[k] \ lastCall.before) =>
                    /\ lastCall.ret = 1
                    /\ selectedPackages = lastCall.before \cup {lastCall.arg}
            /\ (/\ lastCall.op = "isValidSolution"
                /\ lastCall.before = solverCall.ret[k]) => lastCall.ret = TRUE

\* C29: after every selectPackage, deselectPackage and reset of a session the
\* selection is a subset of the graph's node list, and the step has changed
\* neither the graph nor the root.
C29_SelectionInsideFixedGraph ==
    [][/\ dependencyGraph' = dependencyGraph
       /\ rootPackage' = rootPackage
       /\ selectedPackages \subseteq Range(dependencyGraph.nodes)
       /\ selectedPackages' \subseteq Range(dependencyGraph'.nodes)]_vars

\* a token that is not a node has been refused on a selection that is not empty
C29_Witness ==
    /\ lastCall.op = "selectPackage"
    /\ lastCall.ret = -1
    /\ selectedPackages # {}
    /\ selectedPackages = lastCall.before

\* C30: in the application on the built-in scenarios, an event has started
\* the balloon animation exactly when isValidSolution() was false before it
\* and is true after it; a toggle that is refused has changed neither the
\* selection nor gameWon and has updated nothing; after every display
\* update gameWon equals isValidSolution().
C30_CelebrationOnNewWinOnly ==
    /\ lastCall.balloons <=>
           (/\ ~lastCall.wasValid
            /\ IsValidSolution(dependencyGraph, rootPackage, selectedPackages))
    /\ ~lastCall.updated =>
           /\ selectedPackages = lastCall.before
           /\ gameWon = lastCall.wonBefore
           /\ ~lastCall.balloons
    /\ lastCall.updated =>
           gameWon = IsValidSolution(dependencyGraph, rootPackage, selectedPackages)

\* a toggle has been refused while the selection is valid: no new celebration
C30_Witness ==
    /\ lastCall.op = "togglePackageSelection"
    /\ ~lastCall.updated
    /\ ~lastCall.balloons
    /\ gameWon
    /\ rootPackage \in selectedPackages

====
